---- MODULE Spec2Model ----
(***************************************************************************)
(* A model of the terminal activity monitor (class ActivityMonitor and     *)
(* main): the sampling of /proc counters, the derivation of percentages,   *)
(* the alert window, the notification throttle, and process termination.   *)
(*                                                                         *)
(* Conventions.                                                            *)
(*  - Percentages (C++ float) are integers in tenths of a percent, rounded *)
(*    down: 64.0 % is 640.                                                 *)
(*  - unsigned long arithmetic wraps modulo 2^64 in the program; the model *)
(*    wraps modulo 2^WordBits, and every counter it reads is below that    *)
(*    modulus, so a difference wraps exactly when it is negative.          *)
(*  - Clock readings are whole seconds.                                    *)
(*  - A value the program reads without having initialised it is chosen    *)
(*    nondeterministically.                                                *)
(*  - std::sort is not stable: a sort yields any descending arrangement.   *)
(***************************************************************************)
EXTENDS Integers, Sequences, FiniteSets, TLC

VARIABLES
    config,             \* MonitorConfig: cpu_threshold, show_alert, system_notifications, refresh_rate_ms
    cpu_info,           \* CPUInfo: core_usage, total_usage, num_cores
    memory_info,        \* MemoryInfo
    disk_info,          \* std::vector<DiskInfo>
    processes,          \* std::vector<Process>
    prev_cpu_times,     \* std::vector<CPUTimeInfo>
    curr_cpu_times,     \* std::vector<CPUTimeInfo>
    process_list_offset,
    process_sort_type,  \* 0 = CPU%, 1 = MEM%
    running,
    last_update,
    last_notification,
    warning_state,
    pre_warning_state,
    alert_win,          \* TRUE iff the alert window exists (alert_win != nullptr)
    now,                \* the clock
    os_procs,           \* the operating system's process table: the pids alive
    pc,                 \* position of main()/run()
    thrown,             \* the exception in flight or caught by main, or "none"
    usage_valid,        \* observation: total_usage was computed from a positive total delta
    alert_seen,         \* observation: what the last displayAlert derived
    chk,                \* observation: what the last checkAndSendNotifications did
    key,                \* observation: the key the last handleInput handled
    confirm,            \* observation: the confirmation dialog of the last handleInput
    term,               \* observation: the call of killProcess of the last handleInput
    op                  \* observation: the operation the last step performed

vars == <<config, cpu_info, memory_info, disk_info, processes, prev_cpu_times,
          curr_cpu_times, process_list_offset, process_sort_type, running,
          last_update, last_notification, warning_state, pre_warning_state,
          alert_win, now, os_procs, pc, thrown, usage_valid, alert_seen, chk, key,
          confirm, term, op>>

(***************************************************************************)
(* Bounds of the model.                                                    *)
(***************************************************************************)
WordBits == 20
NumCores == 2
MaxTick == 2
MaxPid == 2
MaxTime == 70
MaxWait == 1

Modulus == 2 ^ WordBits

\* unsigned long wrap-around
UL(x) == x % Modulus

(***************************************************************************)
(* CPUTimeInfo (monitor.h)                                                 *)
(***************************************************************************)
CPUTimeInfo(u, n, s, i, w, q, sq, st) ==
    [user |-> u, nice |-> n, system |-> s, idle |-> i,
     iowait |-> w, irq |-> q, softirq |-> sq, steal |-> st]

total(t) ==
    UL(t.user + t.nice + t.system + t.idle + t.iowait + t.irq + t.softirq + t.steal)

idle_time(t) == UL(t.idle + t.iowait)

active_time(t) ==
    UL(t.user + t.nice + t.system + t.irq + t.softirq + t.steal)

\* 100.0f * (1.0f - static_cast<float>(idle_delta) / total_delta), in tenths
cpu_percentage(idle_delta, total_delta) ==
    (1000 * (total_delta - idle_delta)) \div total_delta

(***************************************************************************)
(* The member functions are operators on M, the record of the monitor's    *)
(* members (and of the clock, the process table and the observations): an  *)
(* operator gives the record after the call, or the set of the records the *)
(* call may leave.  M.thrown is the std::runtime_error in flight, "none"   *)
(* when there is none; a collector does nothing once one is in flight.     *)
(***************************************************************************)
RECURSIVE SeqOfSet(_)
\* the elements of a finite set of integers, ascending
SeqOfSet(S) ==
    IF S = {} THEN <<>>
    ELSE LET m == CHOOSE x \in S : \A y \in S : x <= y
         IN  <<m>> \o SeqOfSet(S \ {m})

Range(s) == {s[k] : k \in 1..Len(s)}

Indices(s) == [k \in 1..Len(s) |-> k]

(***************************************************************************)
(* updateCPUInfo (monitor.cpp): io.stat is the sequence of the cpu lines   *)
(* of /proc/stat, the aggregate line first; io.unavailable is the set of   *)
(* the sources that cannot be opened.                                      *)
(***************************************************************************)
total_delta(prev, curr) == UL(total(curr) - total(prev))

idle_delta(prev, curr) == UL(idle_time(curr) - idle_time(prev))

\* line k (core_count = k - 1) has previous data and a positive total delta
LineComputed(prev_times, stat, k) ==
    /\ Len(prev_times) > 0
    /\ Len(prev_times) > k - 1
    /\ total_delta(prev_times[k], stat[k]) > 0

LinePercentage(prev_times, stat, k) ==
    cpu_percentage(idle_delta(prev_times[k], stat[k]),
                   total_delta(prev_times[k], stat[k]))

\* core_percentages: one push_back per computed line other than "cpu"
core_percentages(prev_times, stat) ==
    LET cores == SelectSeq(Indices(stat),
                           LAMBDA k : k > 1 /\ LineComputed(prev_times, stat, k))
    IN  [j \in 1..Len(cores) |-> LinePercentage(prev_times, stat, cores[j])]

UpdateCPUInfo(D, io) ==
    IF D.thrown # "none" THEN D
    ELSE IF "stat" \in io.unavailable THEN [D EXCEPT !.thrown = "stat"]
    ELSE LET prev_times == D.curr_cpu_times
             stat == io.stat
             agg == Len(stat) >= 1 /\ LineComputed(prev_times, stat, 1)
         IN  [D EXCEPT
                !.prev_cpu_times = prev_times,
                !.curr_cpu_times = stat,
                !.cpu_info = [core_usage  |-> core_percentages(prev_times, stat),
                              total_usage |-> IF agg
                                              THEN LinePercentage(prev_times, stat, 1)
                                              ELSE D.cpu_info.total_usage,
                              num_cores   |-> Len(stat) - 1],
                !.usage_valid = D.usage_valid \/ agg]

(***************************************************************************)
(* updateMemoryInfo and updateMemoryStats (monitor.cpp): io.meminfo is the *)
(* record of the values of /proc/meminfo in KB.                            *)
(***************************************************************************)
percent_unguarded(part, whole) == IF whole > 0 THEN (1000 * part) \div whole ELSE 1000

\* (whole > 0) ? 100.0f * part / whole : 0.0f, in tenths of a percent
percent_of(part, whole) == IF whole > 0 THEN (1000 * part) \div whole ELSE 0

UpdateMemoryInfo(D, io) ==
    IF D.thrown # "none" THEN D
    ELSE IF "meminfo" \in io.unavailable THEN [D EXCEPT !.thrown = "meminfo"]
    ELSE LET meminfo == io.meminfo
             mem_used  == UL(meminfo.MemTotal - meminfo.MemAvailable)
             swap_used == UL(meminfo.SwapTotal - meminfo.SwapFree)
             old == D.memory_info
         IN  [D EXCEPT !.memory_info =
                [total |-> meminfo.MemTotal,
                 free |-> meminfo.MemFree,
                 available |-> meminfo.MemAvailable,
                 used |-> mem_used,
                 percent_used |-> percent_of(mem_used, meminfo.MemTotal),
                 swap_total |-> meminfo.SwapTotal,
                 swap_free |-> meminfo.SwapFree,
                 swap_used |-> swap_used,
                 swap_percent_used |-> percent_of(swap_used, meminfo.SwapTotal),
                 cached |-> meminfo.Cached,
                 buffers |-> meminfo.Buffers,
                 cache_hit_rate |-> old.cache_hit_rate,
                 latency_ns |-> old.latency_ns]]

\* 70.0f + cache_percentage * 0.25f capped at 99.0f, or -1.0f; in tenths
cache_hit_rate(mi) ==
    IF mi.total > 0
    THEN LET rate == 700 + (percent_of(UL(mi.cached + mi.buffers), mi.total) \div 4)
         IN  IF rate > 990 THEN 990 ELSE rate
    ELSE -10

\* 60.0f + 40.0f * percent_used / 100.0f, in tenths of a nanosecond
latency_ns(mi) == 600 + ((4 * mi.percent_used) \div 10)

\* the file is read a second time; when it cannot be opened the sizes stay
UpdateMemoryStats(D, io) ==
    IF D.thrown # "none" THEN D
    ELSE LET mi == IF "meminfo" \in io.unavailable THEN D.memory_info
                   ELSE [D.memory_info EXCEPT !.cached = io.meminfo.Cached,
                                              !.buffers = io.meminfo.Buffers]
         IN  [D EXCEPT !.memory_info =
                [mi EXCEPT !.cache_hit_rate = cache_hit_rate(mi),
                           !.latency_ns = latency_ns(mi)]]

(***************************************************************************)
(* updateDiskInfo and updateDiskLatency (monitor.cpp).  io.mounts is the   *)
(* sequence of the lines of /proc/mounts; a line gives the                 *)
(* device as the sequence of its path components, whether the file system  *)
(* type or the mount point is one of those skipped, whether statvfs        *)
(* succeeds, and statvfs's block counts.  io.diskstats is the sequence of  *)
(* the lines of /proc/diskstats.                                           *)
(***************************************************************************)
\* what a DiskInfo's read_latency_ms and io_operations hold before they are
\* assigned: <<latency in tenths of a ms, operations>>
UninitDisk == {<<-10, 0>>, <<70, 7>>}

Monitored(mounts) ==
    SelectSeq(mounts, LAMBDA m : ~m.skipped /\ m.statvfs_ok)

NewDiskInfoOfFree(m, garbage) ==
    LET total_space == UL(m.f_blocks * m.f_frsize) \div 1024
        free_space  == UL(m.f_bfree * m.f_frsize) \div 1024
        used_space  == UL(total_space - free_space)
    IN  [device |-> m.device,
         total_space |-> total_space,
         free_space |-> free_space,
         used_space |-> used_space,
         percent_used |-> percent_of(free_space, total_space),
         read_latency_ms |-> garbage[1],
         io_operations |-> garbage[2]]

NewDiskInfo(m, garbage) ==
    LET total_space == UL(m.f_blocks * m.f_frsize) \div 1024
        free_space  == UL(m.f_bfree * m.f_frsize) \div 1024
        used_space  == UL(total_space - free_space)
    IN  [device |-> m.device,
         total_space |-> total_space,
         free_space |-> free_space,
         used_space |-> used_space,
         percent_used |-> percent_of(used_space, total_space),
         read_latency_ms |-> garbage[1],
         io_operations |-> garbage[2]]

UpdateDiskInfoOutcomes(D, io) ==
    IF D.thrown # "none" THEN {D}
    ELSE IF "mounts" \in io.unavailable THEN {[D EXCEPT !.thrown = "mounts"]}
    ELSE LET ms == Monitored(io.mounts)
         IN  {[D EXCEPT !.disk_info = [k \in 1..Len(ms) |-> NewDiskInfo(ms[k], g[k])]] :
                g \in [1..Len(ms) -> UninitDisk]}

\* disk.device.substr(rfind('/') + 1)
dev_name(device) == device[Len(device)]

\* disk_lookup[dev_name] = &disk: the last disk of that name
disk_lookup(disks, name) ==
    LET hits == {k \in 1..Len(disks) : dev_name(disks[k].device) = name}
    IN  IF hits = {} THEN 0 ELSE CHOOSE k \in hits : \A j \in hits : j <= k

\* static_cast<float>(read_ms) / reads, in tenths of a ms
read_latency_ms(line) == (10 * line.read_ms) \div line.reads

RECURSIVE ParseDiskStats(_, _, _)
\* the lines of diskstats from line k on, applied in order
ParseDiskStats(disks, diskstats, k) ==
    IF k > Len(diskstats) THEN disks
    ELSE LET line == diskstats[k]
             d == disk_lookup(disks, line.dev_name)
             upd == IF d = 0 THEN disks
                    ELSE [disks EXCEPT
                            ![d].read_latency_ms =
                                IF line.reads > 0 THEN read_latency_ms(line) ELSE @,
                            ![d].io_operations = UL(line.reads + line.writes)]
         IN  ParseDiskStats(upd, diskstats, k + 1)

UpdateDiskLatency(D, io) ==
    IF D.thrown # "none" THEN D
    ELSE IF "diskstats" \in io.unavailable THEN D
    ELSE LET reset == [k \in 1..Len(D.disk_info) |->
                         [D.disk_info[k] EXCEPT !.read_latency_ms = -10]]
         IN  [D EXCEPT !.disk_info = ParseDiskStats(reset, io.diskstats, 1)]

(***************************************************************************)
(* sortProcesses (monitor.cpp): std::sort with a descending comparator.    *)
(***************************************************************************)
comp_by_cpu(a, b, sort_type) == a.cpu_percent > b.cpu_percent

\* the comparator: a goes before b
comp(a, b, sort_type) ==
    IF sort_type = 0 THEN a.cpu_percent > b.cpu_percent
    ELSE a.mem_percent > b.mem_percent

Arrangements(s) ==
    {[k \in 1..Len(s) |-> s[f[k]]] :
        f \in {g \in [1..Len(s) -> 1..Len(s)] :
                 \A i, j \in 1..Len(s) : i # j => g[i] # g[j]}}

\* every result std::sort may give: an arrangement with no pair out of order
sortProcesses(procs, sort_type) ==
    {t \in Arrangements(procs) :
        \A i, j \in 1..Len(t) : i < j => ~comp(t[j], t[i], sort_type)}

(***************************************************************************)
(* updateProcessInfo (monitor.cpp).  The scan of /proc lists the pids      *)
(* alive; io.nostatus are the pids whose status file cannot be opened and  *)
(* io.nostat those whose stat file cannot.                                 *)
(***************************************************************************)
\* 0.1f * total_time / (num_cores * 100.0f), in tenths of a percent
cpu_percent(total_time, num_cores) == total_time \div (num_cores * 100)

\* utime + stime and VmRSS of each process, fixed per pid
total_time_of(pid) ==
    CASE pid = 1 -> 20000
      [] pid = 2 -> 180000
      [] OTHER   -> 180000

vm_rss_of(pid) ==
    CASE pid = 1 -> 500000
      [] pid = 2 -> 50000
      [] OTHER   -> 500000

NewProcess(pid, io, D) ==
    [pid |-> pid,
     cpu_percent |-> IF pid \in io.nostat THEN 0
                     ELSE cpu_percent(total_time_of(pid), D.cpu_info.num_cores),
     mem_percent |-> percent_of(vm_rss_of(pid), D.memory_info.total)]

UpdateProcessInfoOutcomes(D, io) ==
    IF D.thrown # "none" THEN {D}
    ELSE IF "procdir" \in io.unavailable
    THEN {[D EXCEPT !.processes = <<>>, !.thrown = "procdir"]}
    ELSE LET pids == SeqOfSet(D.os_procs \ io.nostatus)
             list == [k \in 1..Len(pids) |-> NewProcess(pids[k], io, D)]
         IN  {[D EXCEPT !.processes = t] :
                t \in sortProcesses(list, D.process_sort_type)}

(***************************************************************************)
(* collectData (monitor.cpp): io is one reading of the operating system:   *)
(* [stat, meminfo, mounts, diskstats, nostatus, nostat, unavailable].      *)
(***************************************************************************)
collectData(D, io) ==
    LET D1 == UpdateMemoryInfo(UpdateCPUInfo(D, io), io)
    IN  {UpdateDiskLatency(UpdateMemoryStats(D4, io), io) :
            D4 \in UNION {UpdateProcessInfoOutcomes(D3, io) :
                            D3 \in UpdateDiskInfoOutcomes(D1, io)}}

(***************************************************************************)
(* The alert level: displayAlert (monitor_display.cpp) and                 *)
(* checkAndSendNotifications (system_notifications.cpp) derive it alike.   *)
(***************************************************************************)
\* cpu_info.total_usage > config.cpu_threshold
should_warn_at(usage, threshold) == usage >= threshold

should_warn(usage, threshold) == usage > threshold

\* !should_warn && cpu_info.total_usage > config.cpu_threshold * 0.8f
should_pre_warn(usage, threshold) ==
    ~should_warn(usage, threshold) /\ 10 * usage > 8 * threshold

LevelOf(warn, pre_warn) ==
    IF warn THEN "Warning" ELSE IF pre_warn THEN "PreWarning" ELSE "Normal"

(***************************************************************************)
(* displayAlert (monitor_display.cpp)                                      *)
(***************************************************************************)
displayAlert(D) ==
    LET is_warning == should_warn(D.cpu_info.total_usage, D.config.cpu_threshold)
        is_pre_warning ==
            /\ D.config.show_alert
            /\ should_pre_warn(D.cpu_info.total_usage, D.config.cpu_threshold)
        seen == LevelOf(is_warning, is_pre_warning)
    IN  IF ~D.config.show_alert \/ (~is_warning /\ ~is_pre_warning)
        THEN {[D EXCEPT !.alert_win = FALSE, !.alert_seen = seen]}
        ELSE {[D EXCEPT !.alert_win = TRUE, !.alert_seen = seen,
                        !.process_sort_type = 0, !.processes = t] :
                t \in IF D.process_sort_type # 0
                      THEN sortProcesses(D.processes, 0)
                      ELSE {D.processes}}

(***************************************************************************)
(* checkAndSendNotifications (system_notifications.cpp)                    *)
(***************************************************************************)
NotifyCooldown == 60

state_changed_since_fired(warn, pre_warn, D) ==
    LevelOf(warn, pre_warn) # D.chk.fired

state_changed_when_shown(warn, pre_warn, D) ==
    D.config.show_alert /\ ((warn # D.warning_state) \/ (pre_warn # D.pre_warning_state))

state_changed(warn, pre_warn, D) ==
    (warn # D.warning_state) \/ (pre_warn # D.pre_warning_state)

NotifyDueOnChange(changed, elapsed) == changed

\* if (state_changed || elapsed >= 60)
NotifyDue(changed, elapsed) == changed \/ elapsed >= NotifyCooldown

NotificationOnRecovery(due, warn, pre_warn) ==
    IF due /\ warn THEN "critical"
    ELSE IF due THEN "normal"
    ELSE "none"

\* the notification sent: its urgency, or "none"
Notification(due, warn, pre_warn) ==
    IF due /\ warn THEN "critical"
    ELSE IF due /\ pre_warn THEN "normal"
    ELSE "none"

NoTop == 0

\* no check has derived a level
NoCheck ==
    [level |-> "none", prev_level |-> "none", elapsed |-> 0, sent |-> "none",
     top |-> NoTop, fired |-> "none", prev_fired |-> "none"]

checkAndSendNotifications(D) ==
    LET warn == should_warn(D.cpu_info.total_usage, D.config.cpu_threshold)
        pre_warn == should_pre_warn(D.cpu_info.total_usage, D.config.cpu_threshold)
        top_process == IF D.processes # <<>> THEN D.processes[1].pid ELSE NoTop
        elapsed == D.now - D.last_notification
        sent == Notification(NotifyDue(state_changed(warn, pre_warn, D), elapsed),
                             warn, pre_warn)
        seen == [level |-> LevelOf(warn, pre_warn), prev_level |-> D.chk.level,
                 elapsed |-> elapsed, sent |-> sent,
                 top |-> IF sent = "none" THEN NoTop ELSE top_process,
                 fired |-> IF sent = "none" THEN D.chk.fired
                           ELSE LevelOf(warn, pre_warn),
                 prev_fired |-> D.chk.fired]
    IN  IF ~D.config.system_notifications
        THEN [D EXCEPT !.chk = [NoCheck EXCEPT !.fired = D.chk.fired,
                                               !.prev_fired = D.chk.fired]]
        ELSE [D EXCEPT
                !.chk = seen,
                !.last_notification = IF sent # "none" THEN D.now ELSE @,
                !.warning_state = warn,
                !.pre_warning_state = pre_warn]

(***************************************************************************)
(* kill(2) and killProcess (monitor_display.cpp)                           *)
(***************************************************************************)
Pids == 1..MaxPid

\* pid 1 belongs to another user: a signal to it fails with EPERM
Owned(pid) == pid # 1

\* kill(pid, sig) returns 0
Delivered(procs, pid) == pid \in procs /\ Owned(pid)

\* the process table some time after kill(pid, sig): the process may be
\* gone, or still be listed (it handles SIGTERM and lives on, or has not
\* ended yet)
AfterSignal(procs, pid, sig) ==
    IF Delivered(procs, pid) THEN {procs, procs \ {pid}} ELSE {procs}

Signal(procs, pid, sig) ==
    [pid |-> pid, sig |-> sig, result |-> IF Delivered(procs, pid) THEN 0 ELSE -1]

\* a process of this pid starts between the two calls of kill
Raced(procs, pid, racing) == racing /\ pid \in Pids /\ pid \notin procs

SignalsSentEscalating(procs, pid, racing) ==
    <<Signal(procs, pid, "SIGTERM"), Signal(procs, pid, "SIGKILL")>>

\* the signals killProcess sends: SIGTERM, and SIGKILL if that failed
SignalsSent(procs, pid, racing) ==
    LET first == Signal(procs, pid, "SIGTERM")
    IN  IF first.result # 0
        THEN <<first,
               Signal(IF Raced(procs, pid, racing) THEN procs \cup {pid} ELSE procs,
                      pid, "SIGKILL")>>
        ELSE <<first>>

KillResultOfFirst(signals) == signals[1].result = 0

\* return (result == 0)
KillResult(signals) == signals[Len(signals)].result = 0

\* the observation of a call of killProcess: returned is FALSE while an
\* exception of collectData is in flight
Term(pid, signals, returned, ret) ==
    [called |-> TRUE, pid |-> pid, signals |-> signals,
     returned |-> returned, ret |-> ret]

NoTerm == [called |-> FALSE, pid |-> 0, signals |-> <<>>,
           returned |-> FALSE, ret |-> FALSE]

UpdateListOnSuccess(D, io, signals) ==
    IF KillResult(signals) THEN collectData(D, io) ELSE {D}

\* "Update process list": collectData(), whatever kill returned
UpdateList(D, io, signals) == collectData(D, io)

killProcess(D, pid, racing, io) ==
    IF pid <= 0
    THEN {[D EXCEPT !.term = Term(pid, <<>>, TRUE, FALSE)]}
    ELSE LET signals == SignalsSent(D.os_procs, pid, racing)
             table == IF Raced(D.os_procs, pid, racing)
                      THEN D.os_procs \cup {pid} ELSE D.os_procs
         IN  UNION {
               {[D2 EXCEPT !.term =
                    Term(pid, signals, D2.thrown = "none",
                         D2.thrown = "none" /\ KillResult(signals))] :
                  D2 \in UpdateList([D EXCEPT !.os_procs = procs], io, signals)} :
               procs \in AfterSignal(table, pid, signals[Len(signals)].sig)}

(***************************************************************************)
(* displayConfirmationDialog and killHighestCPUProcess                     *)
(* (monitor_display.cpp).  The dialog polls getch until 'y', 'Y', 'n', 'N' *)
(* or ESC arrives: answer is that key and wait the seconds it took.        *)
(* confirm.since observes the time at which the dialog opened.             *)
(***************************************************************************)
NoConfirm ==
    [asked |-> FALSE, pid |-> 0, answer |-> "none", sort_before |-> 0, since |-> 0]

displayConfirmationDialogAnswered(D, pid, answer, wait) ==
    LET D1 == [D EXCEPT !.now = D.now + wait,
                        !.confirm = [asked |-> TRUE, pid |-> pid, answer |-> answer,
                                     sort_before |-> D.confirm.sort_before,
                                     since |-> D.now + wait]]
    IN  IF D1.alert_win THEN displayAlert(D1) ELSE {D1}

displayConfirmationDialog(D, pid, answer, wait) ==
    LET D1 == [D EXCEPT !.now = D.now + wait,
                        !.confirm = [asked |-> TRUE, pid |-> pid, answer |-> answer,
                                     sort_before |-> D.confirm.sort_before,
                                     since |-> D.now]]
    IN  IF D1.alert_win THEN displayAlert(D1) ELSE {D1}

ConfirmedUnlessNo(answer) == answer \notin {"n", "N"}

Confirmed(answer) == answer \in {"y", "Y"}

SortKept(D) == {D}

\* if (process_sort_type != 0) { process_sort_type = 0; sortProcesses(); }
SortedByCPU(D) ==
    IF D.process_sort_type # 0
    THEN {[D EXCEPT !.process_sort_type = 0, !.processes = t] :
            t \in sortProcesses(D.processes, 0)}
    ELSE {D}

\* confirm.sort_before observes the sort key the call found
killHighestCPUProcess(D0, answer, wait, racing, io1, io2) ==
    LET D == [D0 EXCEPT !.confirm.sort_before = D0.process_sort_type]
        sorted == SortedByCPU(D)
        Kill(D1) ==
            LET top_pid == D1.processes[1].pid
            IN  UNION {
                  IF Confirmed(answer)
                  THEN UNION {IF D3.term.ret THEN collectData(D3, io2) ELSE {D3} :
                                D3 \in killProcess(D2, top_pid, racing, io1)}
                  ELSE {D2} :
                  D2 \in displayConfirmationDialog(D1, top_pid, answer, wait)}
    IN  UNION {IF D1.processes = <<>> THEN {D1} ELSE Kill(D1) : D1 \in sorted}

(***************************************************************************)
(* handleInput (monitor_display.cpp): ch is the key; in is the input the   *)
(* call consumes besides: [answer, wait, racing, io1, io2].                *)
(***************************************************************************)
PageSize == 10

Max(a, b) == IF a > b THEN a ELSE b

Min(a, b) == IF a < b THEN a ELSE b

\* static_cast<int>(processes.size() - 1)
last_index(D) == Len(D.processes) - 1

handleInput(D0, ch, in) ==
    LET D == [D0 EXCEPT !.key = ch, !.term = NoTerm, !.confirm = NoConfirm]
    IN  CASE ch \in {"q", "Q"} -> {[D EXCEPT !.running = FALSE]}
          [] ch \in {"r", "R"} -> collectData(D, in.io1)
          [] ch \in {"t", "T"} ->
                {[D EXCEPT !.config.show_alert = ~D.config.show_alert]}
          [] ch \in {"c", "C"} ->
                {[D EXCEPT !.process_sort_type = 0, !.processes = t] :
                    t \in sortProcesses(D.processes, 0)}
          [] ch \in {"m", "M"} ->
                {[D EXCEPT !.process_sort_type = 1, !.processes = t] :
                    t \in sortProcesses(D.processes, 1)}
          [] ch \in {"k", "K"} ->
                killHighestCPUProcess(D, in.answer, in.wait, in.racing, in.io1, in.io2)
          [] ch = "KEY_UP" ->
                {[D EXCEPT !.process_list_offset = IF @ > 0 THEN @ - 1 ELSE @]}
          [] ch = "KEY_DOWN" ->
                {[D EXCEPT !.process_list_offset =
                             IF @ < last_index(D) THEN @ + 1 ELSE @]}
          [] ch = "KEY_PPAGE" ->
                {[D EXCEPT !.process_list_offset = Max(0, @ - PageSize)]}
          [] ch = "KEY_NPAGE" ->
                {[D EXCEPT !.process_list_offset = Min(last_index(D), @ + PageSize)]}
          [] ch = "KEY_HOME" -> {[D EXCEPT !.process_list_offset = 0]}
          [] ch = "KEY_END" ->
                {[D EXCEPT !.process_list_offset = Max(0, last_index(D))]}
          [] OTHER -> {D}

(***************************************************************************)
(* The state as a record, and back.                                        *)
(***************************************************************************)
Self ==
    [config |-> config, cpu_info |-> cpu_info, memory_info |-> memory_info,
     disk_info |-> disk_info, processes |-> processes,
     prev_cpu_times |-> prev_cpu_times, curr_cpu_times |-> curr_cpu_times,
     process_list_offset |-> process_list_offset,
     process_sort_type |-> process_sort_type, running |-> running,
     last_update |-> last_update, last_notification |-> last_notification,
     warning_state |-> warning_state, pre_warning_state |-> pre_warning_state,
     alert_win |-> alert_win, now |-> now, os_procs |-> os_procs,
     thrown |-> thrown, usage_valid |-> usage_valid, alert_seen |-> alert_seen,
     chk |-> chk, key |-> key, confirm |-> confirm, term |-> term]

Becomes(D) ==
    /\ config' = D.config
    /\ cpu_info' = D.cpu_info
    /\ memory_info' = D.memory_info
    /\ disk_info' = D.disk_info
    /\ processes' = D.processes
    /\ prev_cpu_times' = D.prev_cpu_times
    /\ curr_cpu_times' = D.curr_cpu_times
    /\ process_list_offset' = D.process_list_offset
    /\ process_sort_type' = D.process_sort_type
    /\ running' = D.running
    /\ last_update' = D.last_update
    /\ last_notification' = D.last_notification
    /\ warning_state' = D.warning_state
    /\ pre_warning_state' = D.pre_warning_state
    /\ alert_win' = D.alert_win
    /\ now' = D.now
    /\ os_procs' = D.os_procs
    /\ thrown' = D.thrown
    /\ usage_valid' = D.usage_valid
    /\ alert_seen' = D.alert_seen
    /\ chk' = D.chk
    /\ key' = D.key
    /\ confirm' = D.confirm
    /\ term' = D.term

AfterCaught(D, next, name) ==
    /\ Becomes(D)
    /\ op' = name
    /\ pc' = next

\* main (main.cpp): an exception ends the program with status 1
After(D, next, name) ==
    /\ Becomes(D)
    /\ op' = name
    /\ pc' = IF D.thrown # "none" THEN "failed" ELSE next

(***************************************************************************)
(* What the operating system is read to hold.                              *)
(***************************************************************************)
CoreLine(u, i) == CPUTimeInfo(u, 0, 0, i, 0, 0, 0, 0)

\* the "cpu" line is the sum of the cores' lines
Aggregate(c1, c2) ==
    CPUTimeInfo(c1.user + (NumCores - 1) * c2.user, 0, 0,
                c1.idle + (NumCores - 1) * c2.idle, 0, 0, 0, 0)

\* /proc/stat of NumCores cores: core 0 holds c1, the others c2
Stat(c1, c2) ==
    [k \in 1..(NumCores + 1) |->
        IF k = 1 THEN Aggregate(c1, c2) ELSE IF k = 2 THEN c1 ELSE c2]

\* readings of a machine under changing load, all cores alike: from one to
\* the next the load is 85 %, 0 %, 80 %, 64 %
LoadLines ==
    {CoreLine(0, 0), CoreLine(17, 3), CoreLine(17, 23), CoreLine(33, 27),
     CoreLine(49, 36)}

LoadStats == {Stat(c, c) : c \in LoadLines}

\* readings with every counter change of core 0, rises and falls alike
TickStats ==
    {Stat(CoreLine(u, i), c2) :
        u \in 0..MaxTick, i \in 0..MaxTick,
        c2 \in {CoreLine(0, 1), CoreLine(MaxTick, 0)}}

Mem0 ==
    [MemTotal |-> 1000000, MemFree |-> 100000, MemAvailable |-> 250000,
     SwapTotal |-> 200000, SwapFree |-> 150000, Cached |-> 200000,
     Buffers |-> 50000]

Mounts0 ==
    <<[device |-> <<"dev", "sda1">>, skipped |-> FALSE, statvfs_ok |-> TRUE,
       f_blocks |-> 200, f_bfree |-> 50, f_frsize |-> 4096],
      [device |-> <<"proc">>, skipped |-> TRUE, statvfs_ok |-> TRUE,
       f_blocks |-> 0, f_bfree |-> 0, f_frsize |-> 4096]>>

DiskStats0 ==
    <<[dev_name |-> "sda1", reads |-> 10, read_ms |-> 25, writes |-> 5]>>

IO(stat) ==
    [stat |-> stat, meminfo |-> Mem0, mounts |-> Mounts0,
     diskstats |-> DiskStats0, nostatus |-> {}, nostat |-> {}, unavailable |-> {}]

\* the reading with one source that cannot be opened
Failing(io, source) == [io EXCEPT !.unavailable = {source}]

\* the counters of a running system do not decrease
Rising(times, stat) ==
    \/ times = <<>>
    \/ \A k \in 1..Len(stat) :
          k <= Len(times) =>
             /\ stat[k].user >= times[k].user
             /\ stat[k].idle >= times[k].idle

(***************************************************************************)
(* The readings each specification draws from.                             *)
(***************************************************************************)
LoadIOs == {IO(s) : s \in LoadStats}

NotifyIns ==
    {[answer |-> "n", wait |-> 0, racing |-> FALSE, io1 |-> IO(s), io2 |-> IO(s)] :
        s \in {Stat(CoreLine(49, 36), CoreLine(49, 36))}}

TickIOs == {IO(s) : s \in TickStats} \cup {Failing(IO(s), "stat") : s \in TickStats}

KillStats == {Stat(c, c) : c \in {CoreLine(0, 0), CoreLine(17, 3)}}

KillIOs == {IO(s) : s \in KillStats}

TerminateIOs == KillIOs \cup {Failing(io, "stat") : io \in KillIOs}

KillIns ==
    [answer : {"y", "n"}, wait : {0}, racing : {FALSE}, io1 : KillIOs, io2 : KillIOs]

\* a key that asks nothing: the reading is the one of a refresh
\* the answers the dialog ends on, at once or after MaxWait seconds of polling
DialogIns ==
    [answer : {"y", "n", "N", "ESC"}, wait : {0, MaxWait}, racing : {FALSE},
     io1 : KillIOs, io2 : KillIOs]

SortIns ==
    {[answer |-> "n", wait |-> 0, racing |-> FALSE, io1 |-> io, io2 |-> io] :
        io \in KillIOs}

\* /proc/meminfo of machines with and without memory in use and swap, and
\* one that names no sizes
MemReadings ==
    {[MemTotal |-> t, MemFree |-> a \div 2, MemAvailable |-> a,
      SwapTotal |-> st, SwapFree |-> sf, Cached |-> a \div 4, Buffers |-> 0] :
        t \in {0, 1000000}, a \in {0, 250000, 1000000},
        st \in {0, 200000}, sf \in {0, 150000, 200000}}

\* MemAvailable is at most MemTotal and SwapFree at most SwapTotal
MemSane == {m \in MemReadings : m.MemAvailable <= m.MemTotal
                                 /\ m.SwapFree <= m.SwapTotal}

\* statvfs of the file system of /dev/sda1: empty, smaller than 1 KB, and
\* of 800 KB with none, some and all of it free
StatvfsReadings ==
    {[device |-> <<"dev", "sda1">>, skipped |-> FALSE, statvfs_ok |-> TRUE,
      f_blocks |-> b, f_bfree |-> f, f_frsize |-> z] :
        b \in {0, 1, 200}, f \in {0, 1, 50, 200}, z \in {512, 4096}}

StatvfsSane == {m \in StatvfsReadings : m.f_bfree <= m.f_blocks}

MountReadings == {<<m, Mounts0[2]>> : m \in StatvfsSane} \cup {<<Mounts0[2]>>}

SampleStats == {Stat(CoreLine(17, 3), CoreLine(17, 3))}

SampleIOs ==
    {[stat |-> st, meminfo |-> m, mounts |-> ms, diskstats |-> DiskStats0,
      nostatus |-> {}, nostat |-> {}, unavailable |-> {}] :
        st \in SampleStats, m \in MemSane, ms \in MountReadings}

\* readings with /proc/stat or /proc/meminfo that cannot be opened
ExitIOs ==
    KillIOs \cup {Failing(io, source) : io \in KillIOs, source \in {"stat", "meminfo"}}

ExitIns ==
    {[answer |-> "n", wait |-> 0, racing |-> FALSE, io1 |-> io, io2 |-> io] :
        io \in ExitIOs}

\* the texts given to -r and to -t, character by character
RefreshArgs ==
    {<<"5", "0">>, <<"9", "9">>, <<"1", "0", "0">>, <<"2", "5", "0">>, <<"-", "1">>,
     <<"2", "1", "4", "7", "4", "8", "3", "6", "4", "8">>, <<"x">>}

ThresholdArgs ==
    {<<"0">>, <<"5", "0">>, <<"9", "9", ".", "9">>, <<"1", "0", "0">>,
     <<"1", "0", "0", ".", "1">>, <<"-", "0", ".", "1">>, <<"i", "n", "f">>,
     <<"n", "a", "n">>, <<"x">>}

\* what getopt_long returns: the option and its argument
Options ==
    {[opt |-> "r", optarg |-> a] : a \in RefreshArgs}
    \cup {[opt |-> "t", optarg |-> a] : a \in ThresholdArgs}
    \cup {[opt |-> o, optarg |-> <<>>] : o \in {"a", "n", "h", "?"}}

\* four instants of one machine: the counters of every core and the
\* reads and the read time in ms of sda1 since boot; after the third
\* instant nothing is read from the device
History ==
    <<[cpu |-> CoreLine(0, 0),   reads |-> 10, read_ms |-> 25],
      [cpu |-> CoreLine(17, 3),  reads |-> 12, read_ms |-> 45],
      [cpu |-> CoreLine(51, 9),  reads |-> 15, read_ms |-> 48],
      [cpu |-> CoreLine(68, 12), reads |-> 15, read_ms |-> 48]>>

\* the line of sda1 in /proc/diskstats at an instant
DiskLine(h) ==
    [dev_name |-> "sda1", reads |-> h.reads, read_ms |-> h.read_ms, writes |-> 5]

\* what a reading may lack: the line of the device, a file or directory
\* that cannot be opened, the status or the stat file of process 2
Lacks ==
    {"nothing", "line", "diskstats", "mounts", "procdir", "status", "pidstat"}

Reading(h, lack) ==
    [stat |-> Stat(h.cpu, h.cpu), meminfo |-> Mem0, mounts |-> Mounts0,
     diskstats |-> IF lack = "line"
                   THEN <<[DiskLine(h) EXCEPT !.dev_name = "sdb1"]>>
                   ELSE <<DiskLine(h)>>,
     nostatus |-> IF lack = "status" THEN {2} ELSE {},
     nostat |-> IF lack = "pidstat" THEN {2} ELSE {},
     unavailable |-> IF lack \in {"diskstats", "mounts", "procdir"} THEN {lack} ELSE {}]

SourceIOs == {Reading(History[t], lack) : t \in 1..Len(History), lack \in Lacks}

FirstIOs == {Reading(History[1], "nothing")}

\* all of them: the construction compares them once, which puts every
\* reading into the form in which the steps, taken in parallel, only read it
Inputs ==
    <<LoadIOs, NotifyIns, TickIOs, KillIOs, TerminateIOs, KillIns, SortIns, SampleIOs,
      ExitIOs, ExitIns, Options, SourceIOs, FirstIOs, DialogIns>>

(***************************************************************************)
(* The state after the construction of the monitor in main (main.cpp,      *)
(* monitor.cpp, monitor.h).  cpu_info.total_usage has no initialiser.      *)
(***************************************************************************)
DefaultThreshold == 800
DefaultRefreshRate == 1000

UninitUsage == {0, 950}

Configs ==
    [cpu_threshold : {500, DefaultThreshold}, show_alert : BOOLEAN,
     system_notifications : BOOLEAN, refresh_rate_ms : {DefaultRefreshRate}]

Constructed(configs, tables) ==
    /\ Inputs = Inputs
    /\ config \in configs
    /\ cpu_info \in [core_usage : {<<>>}, total_usage : UninitUsage, num_cores : {0}]
    /\ memory_info =
         [total |-> 0, free |-> 0, available |-> 0, used |-> 0, percent_used |-> 0,
          swap_total |-> 0, swap_free |-> 0, swap_used |-> 0,
          swap_percent_used |-> 0, cached |-> 0, buffers |-> 0,
          cache_hit_rate |-> 0, latency_ns |-> 0]
    /\ disk_info = <<>>
    /\ processes = <<>>
    /\ prev_cpu_times = <<>>
    /\ curr_cpu_times = <<>>
    /\ process_list_offset = 0
    /\ process_sort_type = 0
    /\ running = TRUE
    /\ now = 0
    /\ last_update = 0
    /\ last_notification = 0
    /\ warning_state = FALSE
    /\ pre_warning_state = FALSE
    /\ alert_win = FALSE
    /\ os_procs \in tables
    /\ pc = "main"
    /\ thrown = "none"
    /\ usage_valid = FALSE
    /\ alert_seen = "none"
    /\ chk = NoCheck
    /\ key = "none"
    /\ confirm = NoConfirm
    /\ term = NoTerm
    /\ op = "construct"

(***************************************************************************)
(* The steps of main and run (main.cpp, monitor_display.cpp), each over    *)
(* the inputs it may read.                                                 *)
(***************************************************************************)
\* setConfig: initializeWindows, then the first updateCPUInfo
SetConfig(ios) ==
    /\ pc = "main"
    /\ \E io \in ios :
          After(UpdateCPUInfo([Self EXCEPT !.alert_win = FALSE], io),
                "run", "setConfig")

\* run: the initial collectData
RunStart(ios) ==
    /\ pc = "run"
    /\ \E io \in ios :
          /\ Rising(curr_cpu_times, io.stat)
          /\ \E D \in collectData(Self, io) : After(D, "render", "collectData")

RenderRegardless ==
    /\ pc = "render"
    /\ After([Self EXCEPT !.key = "none", !.term = NoTerm, !.confirm = NoConfirm],
             "alert", "render")

\* while (running): resizeWindows and the four display functions
Render ==
    /\ pc = "render"
    /\ LET D == [Self EXCEPT !.key = "none", !.term = NoTerm, !.confirm = NoConfirm]
       IN  IF running
           THEN After(D, "alert", "render")
           ELSE After(D, "exit", "return")

Alert ==
    /\ pc = "alert"
    /\ \E D \in displayAlert(Self) : After(D, "notify", "displayAlert")

Notify ==
    /\ pc = "notify"
    /\ After(checkAndSendNotifications(Self), "input", "checkAndSendNotifications")

\* int ch = getch(); if (ch != ERR) handleInput(ch);
Input(keys, ins) ==
    /\ pc = "input"
    /\ \E ch \in keys, in \in ins :
          /\ Rising(curr_cpu_times, in.io1.stat)
          /\ Rising(in.io1.stat, in.io2.stat)
          /\ \E D \in IF ch = "ERR"
                      THEN {[Self EXCEPT !.key = ch, !.term = NoTerm,
                                         !.confirm = NoConfirm]}
                      ELSE handleInput(Self, ch, in) :
                After(D, "update", "handleInput")

\* the refresh when it is due, then sleep_for: d seconds pass
Update(ios, steps, horizon) ==
    /\ pc = "update"
    /\ \E io \in ios, d \in steps :
          /\ now + d <= horizon
          /\ Rising(curr_cpu_times, io.stat)
          /\ \E D \in IF 1000 * (now - last_update) >= config.refresh_rate_ms
                      THEN {IF D1.thrown = "none"
                            THEN [D1 EXCEPT !.last_update = now] ELSE D1 :
                              D1 \in collectData(Self, io)}
                      ELSE {Self} :
                After([D EXCEPT !.now = now + d], "render", "update")

\* the process table changes while the loop sleeps: the monitor reads it in
\* handleInput and in the refresh that follows at once
OsSpawn ==
    /\ pc = "input"
    /\ \E p \in Pids \ os_procs :
          After([Self EXCEPT !.os_procs = os_procs \cup {p}], pc, "spawn")

OsExit ==
    /\ pc = "input"
    /\ \E p \in os_procs :
          After([Self EXCEPT !.os_procs = os_procs \ {p}], pc, "exit")

(***************************************************************************)
(* SpecNotify: the run loop under changing load and passing time, with the *)
(* alert toggle as its only key and a fixed process table.                 *)
(***************************************************************************)
NotifySteps == {0, 10, 55}

NextNotify ==
    \/ SetConfig(LoadIOs)
    \/ RunStart(LoadIOs)
    \/ Render
    \/ Alert
    \/ Notify
    \/ Input({"ERR", "t"}, NotifyIns)
    \/ Update(LoadIOs, NotifySteps, MaxTime)

InitNotify == Constructed(Configs, {{2}})

SpecNotify == InitNotify /\ [][NextNotify]_vars

(***************************************************************************)
(* SpecCPU: updateCPUInfo over successive readings of /proc/stat whose     *)
(* counters rise, stay or fall, and a /proc/stat that cannot be opened.    *)
(***************************************************************************)
\* one call of updateCPUInfo
UpdateCPU(ios) ==
    /\ pc = "run"
    /\ \E io \in ios : After(UpdateCPUInfo(Self, io), "run", "updateCPUInfo")

NextCPU ==
    \/ SetConfig({io \in TickIOs : io.unavailable = {}})
    \/ UpdateCPU(TickIOs)

InitCPU ==
    Constructed({c \in Configs : c.cpu_threshold = DefaultThreshold
                                 /\ c.show_alert /\ c.system_notifications},
                {{2}})

SpecCPU == InitCPU /\ [][NextCPU]_vars

(***************************************************************************)
(* SpecKill: the run loop with the keys that refresh, sort, scroll, kill    *)
(* and quit while processes start and end, and killProcess called for any  *)
(* pid.                                                                    *)
(***************************************************************************)
\* one call of killProcess(pid)
Terminate(pids, ios) ==
    /\ pc = "input"
    /\ \E pid \in pids, racing \in BOOLEAN, io \in ios :
          /\ Rising(curr_cpu_times, io.stat)
          /\ \E D \in killProcess([Self EXCEPT !.key = "none", !.confirm = NoConfirm],
                                  pid, racing, io) :
                After(D, "update", "killProcess")

KillKeys == {"ERR", "q", "r", "c", "m", "k", "KEY_DOWN"}

NextKill ==
    \/ SetConfig(KillIOs)
    \/ RunStart(KillIOs)
    \/ Render
    \/ Alert
    \/ Notify
    \/ Input(KillKeys, KillIns)
    \/ Terminate(0..MaxPid, TerminateIOs)
    \/ Update(KillIOs, {0, MaxWait}, MaxWait)
    \/ OsSpawn
    \/ OsExit

InitKill ==
    Constructed({c \in Configs : c.cpu_threshold = DefaultThreshold
                                 /\ c.show_alert /\ ~c.system_notifications},
                {{1, 2}})

SpecKill == InitKill /\ [][NextKill]_vars

(***************************************************************************)
(* The alert level and the notifications, under SpecNotify.                *)
(***************************************************************************)
Checked == op = "checkAndSendNotifications" /\ config.system_notifications

Displayed == op = "displayAlert" /\ config.show_alert

\* the level with both bounds inclusive
InclusiveLevel(usage, threshold) ==
    IF usage >= threshold THEN "Warning"
    ELSE IF 10 * usage >= 8 * threshold THEN "PreWarning"
    ELSE "Normal"

\* the level with both bounds exclusive
ExclusiveLevel(usage, threshold) ==
    IF usage > threshold THEN "Warning"
    ELSE IF 10 * usage > 8 * threshold THEN "PreWarning"
    ELSE "Normal"

\* C1 as stated: the level derived by the alert display and by the
\* notification check is Warning when u >= T, PreWarning when
\* 0.8*T <= u < T and Normal when u < 0.8*T.
C1_LevelInclusive ==
    /\ Checked =>
         chk.level = InclusiveLevel(cpu_info.total_usage, config.cpu_threshold)
    /\ Displayed =>
         alert_seen = InclusiveLevel(cpu_info.total_usage, config.cpu_threshold)

\* C1 amended: the level derived by the notification check, and by the
\* alert display while alerts are enabled, is Warning when u > T,
\* PreWarning when 0.8*T < u <= T and Normal when u <= 0.8*T; with T = 80
\* a usage of 80.0 is PreWarning and a usage of 64.0 is Normal.
C1_LevelExclusive ==
    /\ Checked =>
         chk.level = ExclusiveLevel(cpu_info.total_usage, config.cpu_threshold)
    /\ Displayed =>
         alert_seen = ExclusiveLevel(cpu_info.total_usage, config.cpu_threshold)
    /\ ExclusiveLevel(800, 800) = "PreWarning"
    /\ ExclusiveLevel(640, 800) = "Normal"

C1_AtThreshold ==
    /\ Checked
    /\ cpu_info.total_usage = config.cpu_threshold
    /\ usage_valid
    /\ chk.level = "PreWarning"
    /\ alert_seen = "PreWarning"

C3_ComparedWithLastFired ==
    [][(op' = "checkAndSendNotifications" /\ config.system_notifications
        /\ chk'.level # "Normal")
       => ((chk'.sent # "none") <=>
             (chk'.level # chk.fired \/ now - last_notification >= 60))]_vars

\* the level the monitor remembers
RememberedLevel == LevelOf(warning_state, pre_warning_state)

\* C3 amended: a check whose level L is PreWarning or Warning sends a
\* notification if and only if L differs from the level derived at the
\* previous check (Normal before the first check) or at least 60 seconds
\* have passed since the last notification (since the construction of the
\* monitor when none was sent); the remembered level becomes L at every
\* check, Normal checks included, and the time of the last notification
\* changes only when one is sent.
C3_ComparedWithLastCheck ==
    [][(op' = "checkAndSendNotifications" /\ config.system_notifications)
       => /\ chk'.level # "Normal" =>
               ((chk'.sent # "none") <=>
                  (chk'.level # RememberedLevel \/ now - last_notification >= 60))
          /\ chk.level # "none" => chk.level = RememberedLevel
          /\ RememberedLevel' = chk'.level
          /\ last_notification' =
                IF chk'.sent # "none" THEN now ELSE last_notification]_vars

\* Warning notified, then Normal, then Warning again within 60 seconds:
\* the second Warning is notified
C3_NotifiedAgain ==
    /\ Checked
    /\ chk.level = "Warning"
    /\ chk.prev_level = "Normal"
    /\ chk.prev_fired = "Warning"
    /\ chk.elapsed < 60
    /\ chk.sent = "critical"

\* C4: a check whose level is Normal sends no notification and leaves the
\* time of the last notification as it was, also when the level has just
\* recovered and when more than 60 seconds have passed; nor does a check
\* with notifications disabled.
C4_NormalIsSilent ==
    [][(op' = "checkAndSendNotifications"
        /\ (chk'.level = "Normal" \/ ~config.system_notifications))
       => /\ chk'.sent = "none"
          /\ last_notification' = last_notification]_vars

C4_RecoveredAfterCooldown ==
    /\ Checked
    /\ chk.level = "Normal"
    /\ chk.prev_level = "Warning"
    /\ chk.elapsed >= 60
    /\ chk.sent = "none"

\* C5: until an update has computed the total usage from two snapshots
\* with a positive total delta, no alert window is shown and no
\* notification is sent.
C5_QuietUntilComputed ==
    ~usage_valid =>
        /\ op = "displayAlert" => ~alert_win
        /\ op = "checkAndSendNotifications" => chk.sent = "none"

(***************************************************************************)
(* The CPU usage, under SpecCPU.                                           *)
(***************************************************************************)
CPUUpdated == op \in {"setConfig", "updateCPUInfo"} /\ thrown = "none"

\* line k is in both snapshots
InBoth(k) == k <= Len(prev_cpu_times) /\ k <= Len(curr_cpu_times)

\* the place where the update has put the usage of line k: total_usage for
\* the "cpu" line, the next free place of core_usage for a core
UsageOfLine(k) ==
    IF k = 1 THEN cpu_info.total_usage
    ELSE cpu_info.core_usage[
            Cardinality({j \in 2..k :
                           LineComputed(prev_cpu_times, curr_cpu_times, j)})]

\* C6: after an update, every line whose total rose from the previous
\* snapshot to the current one has a usage between 0 and 100, also when
\* idle + iowait fell.
C6_UsageInRange ==
    CPUUpdated =>
        \A k \in 1..Len(curr_cpu_times) :
            (InBoth(k) /\ total(curr_cpu_times[k]) > total(prev_cpu_times[k]))
                => UsageOfLine(k) \in 0..1000

\* the total of the "cpu" line rose by 1, its idle time fell by 1, and
\* the total usage is below zero
C6_NegativeUsage ==
    /\ CPUUpdated
    /\ InBoth(1)
    /\ total(curr_cpu_times[1]) = total(prev_cpu_times[1]) + 1
    /\ idle_time(curr_cpu_times[1]) = idle_time(prev_cpu_times[1]) - 1
    /\ cpu_info.total_usage < 0

\* C7: an update that reads a line whose total is smaller than in the
\* previous snapshot leaves the usage of that line as it was, and between 0
\* and 100.
C7_ResetKeepsUsage ==
    [][(op' = "updateCPUInfo" /\ thrown' = "none")
       => \A k \in 1..Len(curr_cpu_times') :
            (InBoth(k)' /\ total(curr_cpu_times'[k]) < total(prev_cpu_times'[k]))
               => IF k = 1
                  THEN /\ cpu_info'.total_usage = cpu_info.total_usage
                       /\ usage_valid => cpu_info'.total_usage \in 0..1000
                  ELSE Len(cpu_info.core_usage) >= k - 1
                         => /\ Len(cpu_info'.core_usage) >= k - 1
                            /\ cpu_info'.core_usage[k - 1] = cpu_info.core_usage[k - 1]
                            /\ cpu_info'.core_usage[k - 1] \in 0..1000]_vars

\* the total of the "cpu" line fell, and the total usage was computed anew
\* from the wrapped difference
C7_RecomputedOnReset ==
    /\ op = "updateCPUInfo"
    /\ thrown = "none"
    /\ InBoth(1)
    /\ total(curr_cpu_times[1]) < total(prev_cpu_times[1])
    /\ LineComputed(prev_cpu_times, curr_cpu_times, 1)
    /\ cpu_info.total_usage =
          cpu_percentage(idle_delta(prev_cpu_times[1], curr_cpu_times[1]),
                         Modulus + total(curr_cpu_times[1]) - total(prev_cpu_times[1]))

(***************************************************************************)
(* killProcess, under SpecKill.                                            *)
(***************************************************************************)
\* the step was a call of killProcess, direct or by the key 'k'
Terminated == op \in {"killProcess", "handleInput"} /\ term.called

\* C8: killProcess for a pid > 0 that names no process returns false and
\* leaves the process list, the scroll offset, the sort key and the previous
\* and current CPU snapshots as they were.
C8_FailedTerminateChangesNothing ==
    [][(op' = "killProcess" /\ term'.called /\ thrown' = "none"
        /\ term'.pid > 0 /\ term'.pid \notin os_procs
        /\ term'.signals[Len(term'.signals)].result # 0)
       => /\ term'.returned
          /\ ~term'.ret
          /\ processes' = processes
          /\ process_list_offset' = process_list_offset
          /\ process_sort_type' = process_sort_type
          /\ prev_cpu_times' = prev_cpu_times
          /\ curr_cpu_times' = curr_cpu_times]_vars

\* C9 as stated: killProcess sends SIGTERM first, and when that call
\* succeeded and the process is still alive it sends SIGKILL to the same pid.
C9_EscalatesOnSurvival ==
    (Terminated /\ term.pid > 0) =>
        /\ term.signals[1].sig = "SIGTERM"
        /\ (term.signals[1].result = 0 /\ term.pid \in os_procs)
              => /\ Len(term.signals) = 2
                 /\ term.signals[2].sig = "SIGKILL"
                 /\ term.signals[2].pid = term.pid

\* C9 amended: killProcess for a pid > 0 sends SIGTERM first, and sends
\* SIGKILL to the same pid if and only if the SIGTERM call failed; it makes
\* no grace check, so a process that lives on after a delivered SIGTERM is
\* sent no SIGKILL.
C9_EscalatesOnFailure ==
    (Terminated /\ term.pid > 0) =>
        /\ Len(term.signals) \in {1, 2}
        /\ term.signals[1].sig = "SIGTERM"
        /\ term.signals[1].pid = term.pid
        /\ (Len(term.signals) = 2) <=> (term.signals[1].result # 0)
        /\ Len(term.signals) = 2 =>
              /\ term.signals[2].sig = "SIGKILL"
              /\ term.signals[2].pid = term.pid

\* SIGTERM was delivered, the process is still there, no SIGKILL was sent
C9_SurvivorNotKilled ==
    /\ Terminated
    /\ term.returned
    /\ term.ret
    /\ term.pid \in os_procs
    /\ Len(term.signals) = 1
    /\ term.signals[1].result = 0

MaxCPU(procs) ==
    {p \in Range(procs) : \A q \in Range(procs) : q.cpu_percent <= p.cpu_percent}

KillKey == {"k", "K"}

\* C11: the key 'k' leaves the sort key at CPU, asks to confirm exactly when
\* the list is not empty, and the pid it asks about, which is the pid it
\* terminates on 'y', is that of an entry of the list with the largest CPU
\* percentage, whatever the sort key was.
C11_KillsTopCPU ==
    [][(op' = "handleInput" /\ key' \in KillKey)
       => /\ process_sort_type' = 0
          /\ confirm'.asked <=> (processes # <<>>)
          /\ confirm'.asked => \E p \in MaxCPU(processes) : p.pid = confirm'.pid
          /\ term'.called <=> (confirm'.asked /\ Confirmed(confirm'.answer))
          /\ term'.called => term'.pid = confirm'.pid]_vars

\* the list was sorted by memory, and the process with the most CPU was
\* terminated
C11_FromMemoryOrder ==
    /\ op = "handleInput"
    /\ key \in KillKey
    /\ confirm.sort_before = 1
    /\ confirm.asked
    /\ term.called
    /\ term.pid = 2
    /\ process_sort_type = 0

\* the metric the sort key selects
Metric(p, sort_type) == IF sort_type = 0 THEN p.cpu_percent ELSE p.mem_percent

Descending(procs, sort_type) ==
    \A i, j \in 1..Len(procs) :
        i < j => Metric(procs[i], sort_type) >= Metric(procs[j], sort_type)

PidsOf(procs) == [k \in 1..Len(procs) |-> procs[k].pid]

\* C12: in every state the process list is in non-increasing order of the
\* metric of the current sort key; the list of pid 1 (CPU 10 %, memory 50 %)
\* and pid 2 (CPU 90 %, memory 5 %) is <<2, 1>> under the CPU key and
\* <<1, 2>> under the memory key.
C12_ListDescending ==
    /\ Descending(processes, process_sort_type)
    /\ Range(PidsOf(processes)) = {1, 2} =>
          PidsOf(processes) = IF process_sort_type = 0 THEN <<2, 1>> ELSE <<1, 2>>

C12_MemoryOrder ==
    /\ op = "handleInput"
    /\ key = "m"
    /\ process_sort_type = 1
    /\ PidsOf(processes) = <<1, 2>>
    /\ processes[1].mem_percent = 500
    /\ processes[2].mem_percent = 50

\* C19: the key 'q' sets running to false; from then on running stays
\* false, no render, alert, notification check or input handling is done,
\* and the loop is left at its next test of running, after at most the
\* refresh of the current round.
C19_QuitEndsLoop ==
    [][/\ (op' = "handleInput" /\ key' \in {"q", "Q"}) => ~running'
       /\ ~running =>
            /\ ~running'
            /\ op' \in {"update", "return"}
            /\ pc = "update" => pc' \in {"render", "failed"}
            /\ pc = "render" => pc' = "exit"]_vars

C19_LeftAfterQuit ==
    /\ ~running
    /\ pc = "exit"
    /\ op = "return"
    /\ thrown = "none"

(***************************************************************************)
(* SpecSort: the run loop with the keys that sort, refresh and toggle the  *)
(* alert, over a process table in which pid 3 has the CPU time of pid 2    *)
(* and the resident memory of pid 1, with notifications enabled and the    *)
(* cooldown passing.                                                       *)
(***************************************************************************)
SortPids == {1, 2, 3}

SortKeys == {"ERR", "c", "m", "r", "t"}

NextSort ==
    \/ SetConfig(KillIOs)
    \/ RunStart(KillIOs)
    \/ Render
    \/ Alert
    \/ Notify
    \/ Input(SortKeys, SortIns)
    \/ Update(KillIOs, {0, NotifyCooldown}, MaxTime)

InitSort ==
    Constructed({c \in Configs : c.cpu_threshold = DefaultThreshold
                                 /\ c.system_notifications},
                {SortPids})

SpecSort == InitSort /\ [][NextSort]_vars

(***************************************************************************)
(* The order of equal entries and the process a notification names, under  *)
(* SpecSort.                                                               *)
(***************************************************************************)
\* the place of the entry of pid in the list
PlaceOf(procs, pid) == CHOOSE k \in 1..Len(procs) : procs[k].pid = pid

\* entries of after with equal metric stand in the order they had in before
KeepsOrderOfEquals(before, after, sort_type) ==
    \A i, j \in 1..Len(after) :
        (i < j /\ Metric(after[i], sort_type) = Metric(after[j], sort_type)) =>
            PlaceOf(before, after[i].pid) < PlaceOf(before, after[j].pid)

\* the list updateProcessInfo builds before it sorts: the entries in the
\* order of the scan of /proc
Scanned(procs) ==
    LET pids == SeqOfSet(Range(PidsOf(procs)))
    IN  [k \in 1..Len(pids) |-> procs[PlaceOf(procs, pids[k])]]

Refreshes ==
    \/ pc = "run"
    \/ pc = "update" /\ 1000 * (now - last_update) >= config.refresh_rate_ms

\* C13 as stated: the sort of the keys 'c' and 'm' and the sort of a
\* refresh are stable: entries with equal values of the chosen metric keep
\* the relative order they had in the list before the sort.
C13_SortStable ==
    [][/\ (op' = "handleInput" /\ key' \in {"c", "C", "m", "M"}) =>
             KeepsOrderOfEquals(processes, processes', process_sort_type')
       /\ ((Refreshes \/ (op' = "handleInput" /\ key' \in {"r", "R"}))
             /\ thrown' = "none") =>
             KeepsOrderOfEquals(Scanned(processes'), processes', process_sort_type')
      ]_vars

\* the key 'c' has put pid 3 before pid 2, of equal CPU percentage, which
\* the list before had in the other order
C13_EqualsSwapped ==
    /\ op = "handleInput"
    /\ key = "c"
    /\ process_sort_type = 0
    /\ PidsOf(processes) = <<3, 2, 1>>
    /\ processes[1].cpu_percent = processes[2].cpu_percent

\* C15 as stated: when a Warning or PreWarning notification is sent and a
\* process is known, the process it names as the highest CPU process has
\* the largest CPU percentage of the process list, whatever the sort key
\* and the alert setting at that check.
C15_NamesTopCPU ==
    (Checked /\ chk.sent # "none" /\ processes # <<>>) =>
        \E p \in MaxCPU(processes) : p.pid = chk.top

\* a notification sent while the list is sorted by memory and alerts are
\* disabled names pid 1, which has the least CPU percentage
C15_NamesTopMemory ==
    /\ Checked
    /\ chk.sent = "critical"
    /\ ~config.show_alert
    /\ process_sort_type = 1
    /\ chk.top = 1
    /\ processes[1].cpu_percent < processes[2].cpu_percent

(***************************************************************************)
(* SpecScroll: the run loop with the scroll keys and the refresh key while *)
(* processes start and end.                                                *)
(***************************************************************************)
ScrollKey == {"KEY_UP", "KEY_DOWN", "KEY_PPAGE", "KEY_NPAGE", "KEY_HOME", "KEY_END"}

ScrollKeys == ScrollKey \cup {"ERR", "r"}

NextScroll ==
    \/ SetConfig(KillIOs)
    \/ RunStart(KillIOs)
    \/ Render
    \/ Alert
    \/ Notify
    \/ Input(ScrollKeys, SortIns)
    \/ Update(KillIOs, {0, MaxWait}, MaxWait)
    \/ OsSpawn
    \/ OsExit

InitScroll ==
    Constructed({c \in Configs : c.cpu_threshold = DefaultThreshold
                                 /\ c.show_alert /\ ~c.system_notifications},
                {{1, 2}})

SpecScroll == InitScroll /\ [][NextScroll]_vars

(***************************************************************************)
(* The scroll offset, under SpecScroll.                                    *)
(***************************************************************************)
Scrolled == op = "handleInput" /\ key \in ScrollKey

\* C14 as stated: after each scroll key (line up or down, page up or down
\* by 10, start, end), on a list of any length len >= 0, the scroll offset
\* lies in [0, max(0, len - 1)].
C14_OffsetInRange ==
    Scrolled => process_list_offset \in 0..Max(0, Len(processes) - 1)

\* the list has shrunk to one entry since the offset was set; line down
\* leaves the offset past the end
C14_OffsetPastEnd ==
    /\ Scrolled
    /\ key = "KEY_DOWN"
    /\ Len(processes) = 1
    /\ process_list_offset = 1

(***************************************************************************)
(* SpecSample: collectData over readings of /proc/meminfo and of statvfs   *)
(* that cover totals of 0 and more.                                        *)
(***************************************************************************)
\* one call of collectData
Sample(ios) ==
    /\ pc = "run"
    /\ \E io \in ios :
          /\ Rising(curr_cpu_times, io.stat)
          /\ \E D \in collectData(Self, io) : After(D, "run", "collectData")

NextSample ==
    \/ SetConfig(SampleIOs)
    \/ Sample(SampleIOs)

InitSample ==
    Constructed({c \in Configs : c.cpu_threshold = DefaultThreshold
                                 /\ c.show_alert /\ c.system_notifications},
                {{1, 2}})

SpecSample == InitSample /\ [][NextSample]_vars

(***************************************************************************)
(* The memory and disk metrics, under SpecSample.                          *)
(***************************************************************************)
Sampled == op = "collectData" /\ thrown = "none"

\* 100 * part / whole in tenths of a percent, and 0 for a whole of 0
PercentOrZero(part, whole) == IF whole = 0 THEN 0 ELSE (1000 * part) \div whole

\* C16: after a collection the memory metrics satisfy used = total -
\* available and percentUsed = 100 * used / total, with percentUsed 0 when
\* total is 0, and swap likewise with swap total and swap free; a total of
\* 1,000,000 KB with 250,000 KB available gives 750,000 KB used and 75 %.
C16_MemoryMetrics ==
    Sampled =>
        /\ memory_info.used = memory_info.total - memory_info.available
        /\ memory_info.percent_used =
              PercentOrZero(memory_info.used, memory_info.total)
        /\ memory_info.swap_used = memory_info.swap_total - memory_info.swap_free
        /\ memory_info.swap_percent_used =
              PercentOrZero(memory_info.swap_used, memory_info.swap_total)
        /\ (memory_info.total = 1000000 /\ memory_info.available = 250000) =>
              (memory_info.used = 750000 /\ memory_info.percent_used = 750)

\* the example, on a machine without swap
C16_ThreeQuartersUsed ==
    /\ Sampled
    /\ memory_info.total = 1000000
    /\ memory_info.available = 250000
    /\ memory_info.used = 750000
    /\ memory_info.percent_used = 750
    /\ memory_info.swap_total = 0
    /\ memory_info.swap_percent_used = 0

\* C17: every monitored file system with a total space of 0 has a usage
\* percentage of 0; one with a positive total has 100 * used / total, with
\* used = total - free.
C17_DiskPercent ==
    Sampled =>
        \A k \in 1..Len(disk_info) :
            /\ disk_info[k].used_space =
                  disk_info[k].total_space - disk_info[k].free_space
            /\ disk_info[k].percent_used =
                  PercentOrZero(disk_info[k].used_space, disk_info[k].total_space)

\* a monitored file system with a total of 0 KB shows 0 %
C17_EmptyFilesystem ==
    /\ Sampled
    /\ Len(disk_info) = 1
    /\ disk_info[1].total_space = 0
    /\ disk_info[1].percent_used = 0

(***************************************************************************)
(* SpecExit: the run loop with the keys that refresh and quit, over        *)
(* readings in which /proc/stat or /proc/meminfo cannot be opened.         *)
(***************************************************************************)
ExitKeys == {"ERR", "q", "r"}

NextExit ==
    \/ SetConfig(ExitIOs)
    \/ RunStart(ExitIOs)
    \/ Render
    \/ Alert
    \/ Notify
    \/ Input(ExitKeys, ExitIns)
    \/ Update(ExitIOs, {0, MaxWait}, MaxWait)

InitExit ==
    Constructed({c \in Configs : c.cpu_threshold = DefaultThreshold
                                 /\ c.show_alert /\ ~c.system_notifications},
                {{1, 2}})

SpecExit == InitExit /\ [][NextExit]_vars

(***************************************************************************)
(* The end of the program, under SpecExit.  pc = "failed" is main's catch: *)
(* the message "Error: " with the exception's text, and return 1;          *)
(* pc = "exit" is main's return 0.                                         *)
(***************************************************************************)
Mandatory == {"stat", "meminfo"}

\* the first updateCPUInfo of setConfig and every collectData throw when
\* they face a mandatory source that cannot be opened
ThrowsWhenUnopenable ==
    \A io \in ExitIOs :
        (io.unavailable \cap Mandatory # {}) =>
            /\ "stat" \in io.unavailable => UpdateCPUInfo(Self, io).thrown = "stat"
            /\ \A D \in collectData(Self, io) : D.thrown \in io.unavailable

\* C18: when /proc/stat or /proc/meminfo cannot be opened, at startup or
\* in a later collection, the exception reaches main and the program ends
\* with status 1 and the message of the exception; the program ends with
\* status 0 only by a quit, with no exception.
C18_FailureEndsProgram ==
    [][/\ pc \notin {"failed", "exit"}
       /\ ThrowsWhenUnopenable
       /\ thrown' # "none" => (pc' = "failed" /\ thrown' \in Mandatory)
       /\ pc' = "failed" => thrown' # "none"
       /\ pc' = "exit" => (~running' /\ thrown' = "none" /\ op' = "return")]_vars

\* /proc/meminfo could not be opened in the refresh of a later round
C18_FailedInLaterCycle ==
    /\ pc = "failed"
    /\ thrown = "meminfo"
    /\ op = "update"
    /\ usage_valid

(***************************************************************************)
(* The command line (main.cpp): std::stoi and std::stof on the argument    *)
(* of -r and -t, and the switch over the options.  A float is an integer   *)
(* number of tenths, Infinity, -Infinity or NaN; every comparison with NaN *)
(* is false.  The texts have at most one digit after the point.  The       *)
(* options -d and -o are left out.                                         *)
(***************************************************************************)
IntMax == 2147483647

NaN == -2000000

Infinity == 1000000

Digits == <<"0", "1", "2", "3", "4", "5", "6", "7", "8", "9">>

IsDigit(c) == c \in Range(Digits)

DigitValue(c) == (CHOOSE k \in 1..10 : Digits[k] = c) - 1

RECURSIVE NumberFrom(_, _, _)
\* the digits of s from place k on: their value, which is IntMax with
\* over set when it is larger, and the place after them
NumberFrom(s, k, acc) ==
    IF k > Len(s) \/ ~IsDigit(s[k]) THEN [value |-> acc.value, over |-> acc.over, next |-> k]
    ELSE IF acc.over \/ acc.value > (IntMax - DigitValue(s[k])) \div 10
    THEN NumberFrom(s, k + 1, [value |-> IntMax, over |-> TRUE])
    ELSE NumberFrom(s, k + 1, [value |-> 10 * acc.value + DigitValue(s[k]),
                               over |-> FALSE])

Zero == [value |-> 0, over |-> FALSE]

Signed(s) == s # <<>> /\ s[1] \in {"-", "+"}

Negative(s) == s # <<>> /\ s[1] = "-"

\* std::stoi: sign and digits; std::invalid_argument without a digit,
\* std::out_of_range outside int (no text drawn is -2147483648)
stoi(s) ==
    LET start == IF Signed(s) THEN 2 ELSE 1
        n == NumberFrom(s, start, Zero)
        v == IF Negative(s) THEN - n.value ELSE n.value
    IN  IF n.next = start THEN [thrown |-> "invalid_argument", value |-> 0]
        ELSE IF n.over THEN [thrown |-> "out_of_range", value |-> 0]
        ELSE [thrown |-> "none", value |-> v]

\* std::stof: sign, then "inf", "nan", or digits with an optional point
\* and digits; in tenths
stof(s) ==
    LET start == IF Signed(s) THEN 2 ELSE 1
        word == IF Len(s) >= start + 2 THEN SubSeq(s, start, start + 2) ELSE <<>>
        n == NumberFrom(s, start, Zero)
        point == n.next <= Len(s) /\ s[n.next] = "."
        f == IF point THEN NumberFrom(s, n.next + 1, Zero)
             ELSE [value |-> 0, over |-> FALSE, next |-> n.next]
        first == IF point /\ f.next > n.next + 1 THEN DigitValue(s[n.next + 1]) ELSE 0
        tenths == 10 * n.value + first
        sign(v) == IF Negative(s) THEN - v ELSE v
    IN  IF word = <<"n", "a", "n">> THEN [thrown |-> "none", value |-> NaN]
        ELSE IF word = <<"i", "n", "f">> THEN [thrown |-> "none", value |-> sign(Infinity)]
        ELSE IF n.next = start /\ ~(point /\ f.next > n.next + 1)
        THEN [thrown |-> "invalid_argument", value |-> 0]
        ELSE [thrown |-> "none", value |-> sign(tenths)]

\* a < b on floats
flt_less(a, b) == a # NaN /\ b # NaN /\ a < b

MinRefreshRate == 100

\* case 'r'
refresh_rate_of(value) == IF value < MinRefreshRate THEN MinRefreshRate ELSE value

\* case 't'
cpu_threshold_of(value) ==
    IF flt_less(value, 0) \/ flt_less(1000, value) THEN DefaultThreshold ELSE value

\* one turn of the while loop over getopt_long: the configuration and
\* where main goes on; an exception of stoi or stof is caught nowhere
ParseOption(cfg, o) ==
    CASE o.opt = "r" ->
            LET r == stoi(o.optarg)
            IN  IF r.thrown # "none" THEN [config |-> cfg, pc |-> "aborted"]
                ELSE [config |-> [cfg EXCEPT !.refresh_rate_ms = refresh_rate_of(r.value)],
                      pc |-> "main"]
      [] o.opt = "t" ->
            LET t == stof(o.optarg)
            IN  IF t.thrown # "none" THEN [config |-> cfg, pc |-> "aborted"]
                ELSE [config |-> [cfg EXCEPT !.cpu_threshold = cpu_threshold_of(t.value)],
                      pc |-> "main"]
      [] o.opt = "a" -> [config |-> [cfg EXCEPT !.show_alert = FALSE], pc |-> "main"]
      [] o.opt = "n" ->
            [config |-> [cfg EXCEPT !.system_notifications = FALSE], pc |-> "main"]
      [] o.opt = "h" -> [config |-> cfg, pc |-> "help"]
      [] OTHER -> [config |-> cfg, pc |-> "usage"]

(***************************************************************************)
(* SpecArgs: main from the defaults of MonitorConfig through the options   *)
(* to setConfig.                                                           *)
(***************************************************************************)
Option(opts) ==
    /\ pc = "main"
    /\ op \in {"construct", "option"}
    /\ \E o \in opts :
          LET r == ParseOption(config, o)
          IN  /\ config' = r.config
              /\ pc' = r.pc
              /\ op' = "option"
              /\ key' = o.opt
    /\ UNCHANGED <<cpu_info, memory_info, disk_info, processes, prev_cpu_times,
                   curr_cpu_times, process_list_offset, process_sort_type, running,
                   last_update, last_notification, warning_state, pre_warning_state,
                   alert_win, now, os_procs, thrown, usage_valid, alert_seen, chk,
                   confirm, term>>

NextArgs ==
    \/ Option(Options)
    \/ SetConfig(SampleIOs)

InitArgs ==
    Constructed({c \in Configs : c.cpu_threshold = DefaultThreshold
                                 /\ c.show_alert /\ c.system_notifications},
                {{1, 2}})

SpecArgs == InitArgs /\ [][NextArgs]_vars

(***************************************************************************)
(* The effective configuration, under SpecArgs.                            *)
(***************************************************************************)
\* the text is an integer: digits after an optional sign
IsInteger(s) ==
    LET start == IF Signed(s) THEN 2 ELSE 1
    IN  start <= Len(s) /\ \A k \in start..Len(s) : IsDigit(s[k])

\* the float lies in [0, 100]
InPercentRange(t) == t # NaN /\ 0 <= t /\ t <= 1000

\* C20 as stated: after the parsing, for every integer given to -r and
\* every value given to -t, the effective refresh interval is at least
\* 100 ms, values below 100 having become 100, and the effective CPU
\* threshold lies in [0, 100], values outside having become 80.
C20_EffectiveConfig ==
    /\ \A o \in Options :
          LET r == ParseOption(config, o)
          IN  /\ (o.opt = "r" /\ IsInteger(o.optarg)) =>
                    /\ r.pc = "main"
                    /\ r.config.refresh_rate_ms >= MinRefreshRate
                    /\ (stoi(o.optarg).value < MinRefreshRate =>
                          r.config.refresh_rate_ms = MinRefreshRate)
              /\ (o.opt = "t" /\ stof(o.optarg).thrown = "none") =>
                    /\ r.pc = "main"
                    /\ InPercentRange(r.config.cpu_threshold)
                    /\ (~InPercentRange(stof(o.optarg).value) =>
                          r.config.cpu_threshold = DefaultThreshold)
    /\ op = "setConfig" =>
          /\ config.refresh_rate_ms >= MinRefreshRate
          /\ InPercentRange(config.cpu_threshold)

\* -t nan: the monitor is configured with a threshold that is no number
C20_ThresholdNaN ==
    /\ op = "setConfig"
    /\ pc = "run"
    /\ config.cpu_threshold = NaN
    /\ config.refresh_rate_ms = MinRefreshRate

(***************************************************************************)
(* The refresh after a terminate attempt, under SpecKill.                  *)
(***************************************************************************)
\* C21: a call of killProcess with pid > 0, whether a signal was delivered
\* or both calls of kill failed, ends with the data collected anew after
\* the signals: the process list is that of the process table after the
\* signals and the CPU snapshot is a new reading, and the loop goes on to
\* its refresh and the next render with them; or the collection has
\* thrown and nothing is rendered again.
C21_RefreshedAfterTerminate ==
    [][(op' \in {"killProcess", "handleInput"} /\ term'.called /\ term'.pid > 0) =>
         IF thrown' = "none"
         THEN /\ term'.returned
              /\ Range(PidsOf(processes')) = os_procs'
              /\ Descending(processes', process_sort_type')
              /\ \E io \in TerminateIOs : curr_cpu_times' = io.stat
              /\ pc' = "update"
         ELSE pc' = "failed"]_vars

\* both signals to pid 2 failed, since it had exited, and the list that
\* held it has been read again
C21_RefreshedAfterFailure ==
    /\ op = "killProcess"
    /\ term.called
    /\ term.pid = 2
    /\ Len(term.signals) = 2
    /\ ~term.ret
    /\ term.returned
    /\ os_procs = {1}
    /\ PidsOf(processes) = <<1>>

(***************************************************************************)
(* The per-core usage, under SpecCPU.                                      *)
(***************************************************************************)
\* the total of the line of core i (line i + 1) did not change
CoreIdle(prev_times, stat, i) == total_delta(prev_times[i + 1], stat[i + 1]) = 0

\* C22 as stated: after every CPU update following the first, core_usage
\* has one entry per core, entry i holding the usage of core i; a core
\* whose total delta is 0 keeps the value it had, and the values of the
\* other cores stay at their own places.
C22_OneEntryPerCore ==
    [][(op' = "updateCPUInfo" /\ thrown' = "none" /\ curr_cpu_times # <<>>) =>
         /\ Len(cpu_info'.core_usage) = cpu_info'.num_cores
         /\ \A i \in 1..cpu_info'.num_cores :
               IF CoreIdle(prev_cpu_times', curr_cpu_times', i)
               THEN i <= Len(cpu_info.core_usage) =>
                      cpu_info'.core_usage[i] = cpu_info.core_usage[i]
               ELSE cpu_info'.core_usage[i] =
                      LinePercentage(prev_cpu_times', curr_cpu_times', i + 1)]_vars

\* the counters of the first core stood still while those of the second
\* rose: core_usage has one entry, the usage of the second core, at the
\* place of the first
C22_SecondCoreAtFirstPlace ==
    /\ op = "updateCPUInfo"
    /\ thrown = "none"
    /\ Len(prev_cpu_times) = NumCores + 1
    /\ CoreIdle(prev_cpu_times, curr_cpu_times, 1)
    /\ ~CoreIdle(prev_cpu_times, curr_cpu_times, 2)
    /\ Len(cpu_info.core_usage) < cpu_info.num_cores
    /\ cpu_info.core_usage[1] = LinePercentage(prev_cpu_times, curr_cpu_times, 3)

(***************************************************************************)
(* SpecSources: collectData over the instants of one machine, with         *)
(* readings that lack the line of the device in /proc/diskstats, a source  *)
(* that cannot be opened, or the files of one process.                     *)
(***************************************************************************)
NextSources ==
    \/ SetConfig(FirstIOs)
    \/ Sample(SourceIOs)

InitSources ==
    Constructed({c \in Configs : c.cpu_threshold = DefaultThreshold
                                 /\ c.show_alert /\ c.system_notifications},
                {{1, 2}})

SpecSources == InitSources /\ [][NextSources]_vars

(***************************************************************************)
(* The disk latency and the sources that fail, under SpecSources.          *)
(***************************************************************************)
\* the instant at which the snapshot was read
InstantOf(times) ==
    History[CHOOSE t \in 1..Len(History) : Stat(History[t].cpu, History[t].cpu) = times]

\* the cycle that read the snapshot has read the counters of the one
\* monitored device
CountersRead(disks, times) ==
    /\ Len(disks) = 1
    /\ disks[1].io_operations = InstantOf(times).reads + 5

\* the read time by the reads, in tenths of a ms, or -1.0
LatencyOf(ms, reads) == IF reads > 0 THEN (10 * ms) \div reads ELSE -10

\* C23 as stated: the read latency of a monitored device in a cycle is the
\* read time of this cycle less that of the previous cycle, divided by the
\* reads of this cycle less those of the previous cycle, when that
\* difference is above 0, and unavailable otherwise; it is not the ratio
\* of the counters since boot.
C23_LatencyOfCycle ==
    [][(/\ op = "collectData" /\ thrown = "none"
        /\ op' = "collectData" /\ thrown' = "none"
        /\ CountersRead(disk_info, curr_cpu_times)
        /\ CountersRead(disk_info', curr_cpu_times')) =>
          LET prev == InstantOf(curr_cpu_times)
              curr == InstantOf(curr_cpu_times')
          IN  disk_info'[1].read_latency_ms =
                LatencyOf(curr.read_ms - prev.read_ms, curr.reads - prev.reads)]_vars

\* from the second instant to the third, 3 reads took 3 ms; the latency
\* shown is 3.2 ms, the 48 ms of the 15 reads since boot
C23_LatencySinceBoot ==
    /\ op = "collectData"
    /\ thrown = "none"
    /\ prev_cpu_times = Stat(History[2].cpu, History[2].cpu)
    /\ curr_cpu_times = Stat(History[3].cpu, History[3].cpu)
    /\ CountersRead(disk_info, curr_cpu_times)
    /\ disk_info[1].read_latency_ms = LatencyOf(48, 15)
    /\ LatencyOf(48 - 45, 15 - 12) # LatencyOf(48, 15)

\* the reading gives no counters of the device
NoCounters(io) ==
    \/ "diskstats" \in io.unavailable
    \/ \A k \in 1..Len(io.diskstats) : io.diskstats[k].dev_name # "sda1"

\* C24 as stated: after every refresh, each monitored file system for which
\* no counters were read in the cycle, /proc/diskstats being unopenable or
\* without a line of the device, has the read latency -1.0 (shown as N/A),
\* and the cycle goes on without error.
C24_LatencyUnavailable ==
    \A io \in SourceIOs :
        (NoCounters(io) /\ Rising(curr_cpu_times, io.stat) /\ thrown = "none") =>
            \A D \in collectData(Self, io) :
                /\ D.thrown = "none"
                /\ \A k \in 1..Len(D.disk_info) : D.disk_info[k].read_latency_ms = -10

\* /proc/diskstats could not be opened: the latency of the device is what
\* the memory of the new entry held
C24_LatencyUninitialised ==
    /\ op = "collectData"
    /\ thrown = "none"
    /\ Len(disk_info) = 1
    /\ disk_info[1].read_latency_ms = 70
    /\ disk_info[1].io_operations = 7

\* C25 as stated: a failure to open a source other than /proc/stat and
\* /proc/meminfo (the list of mounts, the directory of the processes,
\* /proc/diskstats, the status or stat file of one process) never ends the
\* program: the metric degrades or the entry is skipped, and the loop
\* goes on.
C25_OtherFailuresAbsorbed ==
    /\ thrown \notin {"mounts", "procdir", "diskstats", "status", "pidstat"}
    /\ pc = "failed" => thrown \in Mandatory

\* the directory /proc could not be opened: the program has ended with
\* status 1, its process list empty
C25_EndedByProcDir ==
    /\ pc = "failed"
    /\ op = "collectData"
    /\ thrown = "procdir"
    /\ processes = <<>>

(***************************************************************************)
(* SpecDialog: the run loop with the keys that sort, scroll, kill and      *)
(* quit, the confirmation dialog answered by each of its keys at once or   *)
(* after a wait, over a process table of two processes or none.            *)
(***************************************************************************)
DialogKeys == {"ERR", "q", "c", "m", "k", "K", "KEY_DOWN"}

NextDialog ==
    \/ SetConfig(KillIOs)
    \/ RunStart(KillIOs)
    \/ Render
    \/ Alert
    \/ Notify
    \/ Input(DialogKeys, {in \in DialogIns : now + in.wait <= 2 * MaxWait})
    \/ Update(KillIOs, {0, MaxWait}, 2 * MaxWait)

InitDialog ==
    Constructed({c \in Configs : c.cpu_threshold = DefaultThreshold
                                 /\ ~c.system_notifications},
                {{}, {1, 2}})

SpecDialog == InitDialog /\ [][NextDialog]_vars

(***************************************************************************)
(* The time input handling takes, under SpecDialog.                        *)
(***************************************************************************)
\* the refresh is due: now - last_update >= refresh_rate_ms
Due(t) == 1000 * (t - last_update) >= config.refresh_rate_ms

WithoutAlert(D) ==
    [D EXCEPT !.config.show_alert = FALSE, !.alert_win = FALSE,
              !.alert_seen = "none", !.process_sort_type = 0,
              !.processes = Range(D.processes), !.key = "none",
              !.confirm = NoConfirm, !.term = NoTerm, !.chk.top = NoTop]

\* the states a run is in that had the same readings, times and checks with
\* another alert setting and other toggles
AlertVariants(D) ==
    UNION {{[D EXCEPT !.config.show_alert = b, !.alert_win = w,
                      !.process_sort_type = t, !.processes = l] :
               l \in sortProcesses(D.processes, t)} :
             b \in BOOLEAN, w \in BOOLEAN, t \in {0, 1}}

\* C27: a run that had the same readings at the same times and differs only
\* in show_alert and the 't' keys is, but for what the alert window writes,
\* in the same state: from there a notification check sends the same
\* notification at the same level and leaves the same throttler state, a
\* refresh reads the same usage, and a toggle and a render of the alert
\* window change nothing the throttler reads.
C27_ThrottlerIgnoresAlert ==
    \A V \in AlertVariants(Self) :
        /\ WithoutAlert(checkAndSendNotifications(V))
             = WithoutAlert(checkAndSendNotifications(Self))
        /\ \A E \in displayAlert(V) : WithoutAlert(E) = WithoutAlert(Self)
        /\ \A in \in SortIns : \A E \in handleInput(V, "t", in) :
              WithoutAlert(E) = WithoutAlert(Self)
        /\ \A io \in KillIOs :
              {WithoutAlert(E) : E \in collectData(V, io)}
                = {WithoutAlert(E) : E \in collectData(Self, io)}

\* a check sent the critical notification again after the cooldown while
\* the alert was switched off and the list stood in memory order
C27_FiredWithAlertOff ==
    /\ op = "checkAndSendNotifications"
    /\ chk.sent = "critical"
    /\ chk.prev_fired = "Warning"
    /\ ~config.show_alert
    /\ ~alert_win
    /\ process_sort_type = 1

(***************************************************************************)
(* Consent to the kill, under SpecDialog.                                  *)
(***************************************************************************)
\* the key 'k' has been handled and the dialog, if it opened, was not
\* answered 'y' or 'Y'
Unconsented ==
    /\ op' = "handleInput"
    /\ key' \in KillKey
    /\ ~(confirm'.asked /\ confirm'.answer \in {"y", "Y"})

\* a step that sends signals is the handling of 'k', and every signal goes
\* to the pid the dialog asked about and was answered 'y' or 'Y' for
SignalsConsented ==
    (term'.called /\ term' # term) =>
        /\ op' = "handleInput"
        /\ key' \in KillKey
        /\ confirm'.asked
        /\ confirm'.answer \in {"y", "Y"}
        /\ term'.pid = confirm'.pid
        /\ \A k \in 1..Len(term'.signals) : term'.signals[k].pid = confirm'.pid

\* C28: a signal is sent only to the pid the dialog was answered 'y' or 'Y'
\* for; after 'n', 'N' or ESC, and with an empty list, no signal is sent,
\* the process table is as it was and the process list is unchanged.
C28_NoConsentNoChange ==
    [][/\ SignalsConsented
       /\ Unconsented =>
            /\ ~term'.called
            /\ os_procs' = os_procs
            /\ processes' = processes]_vars

\* C28 as amended: a signal is sent only to the pid the dialog was answered
\* 'y' or 'Y' for; after 'n', 'N' or ESC, and with an empty list, no signal
\* is sent and the process table is as it was, the sort key is CPU, and
\* the process list holds the entries it held: unchanged when the sort key
\* was CPU, and in descending order of CPU otherwise.
C28_NoConsentNoSignal ==
    [][/\ SignalsConsented
       /\ Unconsented =>
            /\ ~term'.called
            /\ os_procs' = os_procs
            /\ process_sort_type' = 0
            /\ processes' \in IF process_sort_type = 0 THEN {processes}
                              ELSE sortProcesses(processes, 0)]_vars

\* the kill was declined with ESC after the list had stood in memory order,
\* and the list is now in CPU order
C28_DeclinedFromMemoryOrder ==
    /\ op = "handleInput"
    /\ key \in KillKey
    /\ confirm.asked
    /\ confirm.answer = "ESC"
    /\ confirm.sort_before = 1
    /\ ~term.called
    /\ process_sort_type = 0
    /\ PidsOf(processes) = <<2, 1>>

(***************************************************************************)
(* The scroll offset at the render, under SpecScroll.                      *)
(***************************************************************************)
\* displayProcessInfo has drawn the list from process_list_offset
Rendered == op = "render" /\ pc = "alert"

\* C29: whenever the process list is rendered, the scroll offset lies in
\* [0, max(0, len - 1)] for the length len the list then has, also when a
\* refresh has made the list shorter since the offset was set.
C29_RenderedInRange ==
    Rendered => process_list_offset \in 0..Max(0, Len(processes) - 1)

\* the list is rendered with one entry and the offset at 1, where the end
\* of the list of two entries was: no row is drawn
C29_RenderedPastEnd ==
    /\ Rendered
    /\ Len(processes) = 1
    /\ os_procs = {2}
    /\ process_list_offset = 1

(***************************************************************************)
(* The sort key between commands, under SpecSort.                          *)
(***************************************************************************)
SortCommand == {"c", "C", "m", "M", "k", "K"}

\* C30: the sort key changes only when handleInput handles 'c', 'm' or 'k':
\* a refresh, a render of the alert window and a notification check leave
\* it as it is, whatever the CPU usage.
C30_SortKeyByCommand ==
    [][process_sort_type' # process_sort_type =>
         (op' = "handleInput" /\ key' \in SortCommand)]_vars

\* the list stands in memory order, alerts are enabled and the usage is
\* above the threshold when displayAlert is about to run
C30_MemorySortBeforeAlert ==
    /\ pc = "alert"
    /\ op = "render"
    /\ process_sort_type = 1
    /\ config.show_alert
    /\ should_warn(cpu_info.total_usage, config.cpu_threshold)

====
